---- MODULE Spec2Model ----
(***************************************************************************)
(* Megaplan client (src/megaplan/megaplan.py): class Request (construction, *)
(* sign, send) and class Client (construction, authenticate, request and   *)
(* the helper methods).                                                    *)
(*                                                                         *)
(* Representation.  A Python string is a sequence of tokens, each token a  *)
(* TLA+ string, so that '+' and '\n'.join are sequence concatenation.      *)
(* Python's None is the one-token sequence None, which no string equals.   *)
(* A decoded JSON value is a tagged record: JNull, JDict(f) with f a       *)
(* function from the keys present to strings-or-None, JLeaf, JTuple.       *)
(* Digests (md5, hmac-sha1, hex, base64, urlencode) cannot be computed     *)
(* here; each is the token ToString(<<name, inputs>>): an injective        *)
(* function of its inputs with its own range, never the input itself.      *)
(***************************************************************************)
EXTENDS Integers, Sequences, FiniteSets, TLC

VARIABLES
    hostname,     \* Client.hostname
    access_id,    \* Client.access_id
    secret_key,   \* Client.secret_key
    last,         \* the most recent call on the client: what it was, what the
                  \* transport was handed and answered, how the call ended
    lastAuth,     \* history: payload of the latest authenticate() that returned
    pc,           \* threads: position of each thread inside its method
    loc,          \* threads: each thread's local variables
    pairs,        \* threads: history, the credential pairs the client was given
    built,        \* threads: history, the Request objects built by request()
    reqA, reqB    \* Request objects: the two most recently signed requests

vars == <<hostname, access_id, secret_key, last, lastAuth, pc, loc, pairs, built,
          reqA, reqB>>

clientVars == <<hostname, access_id, secret_key, last, lastAuth>>
threadVars == <<pc, loc, pairs, built>>
signVars == <<reqA, reqB>>

-----------------------------------------------------------------------------
(* Bounds *)

MaxClock == 1         \* the wall clock reads 0..MaxClock seconds
MaxAuthCalls == 2     \* threads: authenticate() calls of the writer thread
MaxRequests == 2      \* threads: request() calls of the reader thread

-----------------------------------------------------------------------------
(* Values *)

None == <<"<None>">>

JNull == [t |-> "null"]
JDict(f) == [t |-> "dict", f |-> f]
JLeaf(v) == [t |-> "leaf", v |-> v]
JTuple(v) == [t |-> "tuple", v |-> v]

Return(v) == [kind |-> "return", value |-> v]
Raise(exc, msg) == [kind |-> "raise", exc |-> exc, msg |-> msg]

\* str(x): the text of a string is itself, the text of None is 'None'
Str(x) == IF x = None THEN <<"N", "o", "n", "e">> ELSE x

\* bool(x) for a string or None
Truthy(x) == x # None /\ x # <<>>

Clock == 0..MaxClock

Digit(n) == CASE n = 0 -> "0" [] n = 1 -> "1" [] n = 2 -> "2" [] n = 3 -> "3"
              [] n = 4 -> "4" [] n = 5 -> "5" [] n = 6 -> "6" [] n = 7 -> "7"
              [] n = 8 -> "8" [] n = 9 -> "9"

\* zero-padded two-digit field of strftime (%d, %H, %M, %S)
Pad2(n) == <<Digit((n \div 10) % 10), Digit(n % 10)>>

\* time.strftime('%a, %d %b %Y %H:%M:%S +0000', time.gmtime()) at t seconds
\* after midnight of the epoch day: the date part is the epoch day's.
Strftime(t) ==
    <<"Thu", ",", " ", "0", "1", " ", "Jan", " ", "1970", " ">>
    \o Pad2((t \div 3600) % 24) \o <<":">> \o Pad2((t \div 60) % 60) \o <<":">>
    \o Pad2(t % 60) \o <<" ", "+0000">>

\* '\n'.join(fields)
RECURSIVE Join(_)
Join(fields) ==
    IF Len(fields) = 0 THEN <<>>
    ELSE IF Len(fields) = 1 THEN fields[1]
    ELSE fields[1] \o <<"\n">> \o Join(Tail(fields))

Md5Hex(password) == <<ToString(<<"md5.hexdigest", password>>)>>
HmacSha1Hex(key, text) == <<ToString(<<"hmac.sha1.hexdigest", key, text>>)>>
B64encode(s) == <<ToString(<<"base64", s>>)>>
Urlencode(f) == <<ToString(<<"urlencode", f>>)>>

-----------------------------------------------------------------------------
(* class Request *)

\* Request.__init__(hostname, access_id, secret_key, uri, data), the clock
\* reading t
NewRequest(h, a, s, uri, data, t) ==
    [method |-> <<"POST">>,
     proto |-> <<"http">>,
     uri |-> h \o <<"/">> \o uri,
     access_id |-> a,
     secret_key |-> s,
     content_type |-> <<"application/x-www-form-urlencoded">>,
     date |-> Strftime(t),
     signature |-> None,
     data |-> data]

\* faulty variant: the date is left out of the text
CanonicalTextNoDate(req) ==
    Join(<<req.method, <<>>, req.content_type, req.uri>>)

\* the text sign() authenticates
CanonicalText(req) ==
    Join(<<req.method, <<>>, req.content_type, req.date, req.uri>>)

\* Request.sign()
Sign(req) ==
    [req EXCEPT !.signature =
        B64encode(HmacSha1Hex(Str(req.secret_key), CanonicalText(req)))]

\* self.data and urllib.urlencode(self.data): None and {} are falsy and are
\* passed on as they are
Body(data) ==
    IF data.t = "null" \/ (data.t = "dict" /\ DOMAIN data.f = {})
    THEN data
    ELSE JLeaf(Urlencode(data.f))

BaseHeaders(req) ==
    [k \in {"Date", "Accept", "User-Agent"} |->
        CASE k = "Date" -> req.date
          [] k = "Accept" -> <<"application/json">>
          [] k = "User-Agent" -> <<"SdfApi_Request">>]

WithHeader(hs, name, value) ==
    [k \in DOMAIN hs \cup {name} |-> IF k = name THEN value ELSE hs[k]]

\* faulty variant: the header is attached whenever an access id is held
HttpRequestIfAccessId(req) ==
    [url |-> req.proto \o <<"://">> \o req.uri,
     data |-> Body(req.data),
     headers |->
        IF Truthy(req.access_id)
        THEN WithHeader(BaseHeaders(req), "X-Authorization",
                        req.access_id \o <<":">> \o Str(req.signature))
        ELSE BaseHeaders(req)]

\* the urllib2.Request that send() builds (lines 59-67)
HttpRequest(req) ==
    [url |-> req.proto \o <<"://">> \o req.uri,
     data |-> Body(req.data),
     headers |->
        IF Truthy(req.signature)
        THEN WithHeader(BaseHeaders(req), "X-Authorization",
                        req.access_id \o <<":">> \o req.signature)
        ELSE BaseHeaders(req)]

\* what urllib2.urlopen + simplejson.loads hand back: a decoded envelope, or
\* the transport failing
URLError == [t |-> "URLError"]
Envelope(code, message, body) ==
    [t |-> "json", status |-> [code |-> code, message |-> message], body |-> body]

\* faulty variant: the status code is not looked at
DecodeNoStatusCheck(resp) ==
    IF resp.t = "URLError" THEN Raise("URLError", <<"urlopen error">>)
    ELSE IF "data" \in DOMAIN resp.body THEN Return(resp.body["data"])
    ELSE IF "json" \in DOMAIN resp.body THEN Return(resp.body["json"])
    ELSE Return(JNull)

\* faulty variant: 'json' is preferred to 'data'
DecodeJsonFirst(resp) ==
    IF resp.t = "URLError" THEN Raise("URLError", <<"urlopen error">>)
    ELSE IF resp.status.code # <<"ok">> THEN Raise("Exception", resp.status.message)
    ELSE IF "json" \in DOMAIN resp.body THEN Return(resp.body["json"])
    ELSE IF "data" \in DOMAIN resp.body THEN Return(resp.body["data"])
    ELSE Return(JNull)

\* lines 69-77: the outcome of send() once the transport answered resp
Decode(resp) ==
    IF resp.t = "URLError" THEN Raise("URLError", <<"urlopen error">>)
    ELSE IF resp.status.code # <<"ok">> THEN Raise("Exception", resp.status.message)
    ELSE IF "data" \in DOMAIN resp.body THEN Return(resp.body["data"])
    ELSE IF "json" \in DOMAIN resp.body THEN Return(resp.body["json"])
    ELSE Return(JNull)

\* Request.send(): [out, sent]; sent is the sequence of requests handed to
\* urlopen during the call.  None + ':' (line 67) is a TypeError.
RequestSend(req, resp) ==
    IF Truthy(req.signature) /\ req.access_id = None
    THEN [out |-> Raise("TypeError", <<"unsupported operand">>), sent |-> <<>>]
    ELSE [out |-> Decode(resp), sent |-> <<HttpRequest(req)>>]

-----------------------------------------------------------------------------
(* class Client *)

\* faulty variant: the credentials are not checked
ClientRequestNoCheck(h, a, s, uri, args, signed, t, resp) ==
    LET req0 == NewRequest(h, a, s, uri, args, t)
        req == IF signed THEN Sign(req0) ELSE req0
    IN  RequestSend(req, resp)

\* Client.request(uri, args, signed) on a client (h, a, s): [out, sent]
ClientRequest(h, a, s, uri, args, signed, t, resp) ==
    IF (a = None \/ s = None) /\ signed = TRUE
    THEN [out |-> Raise("Exception", <<"Authenticate first.">>), sent |-> <<>>]
    ELSE LET req0 == NewRequest(h, a, s, uri, args, t)
             req == IF signed THEN Sign(req0) ELSE req0
         IN  RequestSend(req, resp)

AuthUri == <<"BumsCommonApiV01", "/", "User", "/", "authorize.api">>

AuthArgs(login, password) ==
    JDict([k \in {"Login", "Password"} |->
              IF k = "Login" THEN login ELSE Md5Hex(password)])

\* lines 93-96 on the payload data: the fields after the call and how it ends
StoreCredentials(a, s, data) ==
    IF data.t # "dict"
    THEN [access_id |-> a, secret_key |-> s,
          out |-> Raise("TypeError", <<"not subscriptable">>)]
    ELSE IF "AccessId" \notin DOMAIN data.f
    THEN [access_id |-> a, secret_key |-> s,
          out |-> Raise("KeyError", <<"AccessId">>)]
    ELSE IF "SecretKey" \notin DOMAIN data.f
    THEN [access_id |-> data.f["AccessId"], secret_key |-> s,
          out |-> Raise("KeyError", <<"SecretKey">>)]
    ELSE IF "EmployeeId" \notin DOMAIN data.f
    THEN [access_id |-> data.f["AccessId"], secret_key |-> data.f["SecretKey"],
          out |-> Raise("KeyError", <<"EmployeeId">>)]
    ELSE [access_id |-> data.f["AccessId"], secret_key |-> data.f["SecretKey"],
          out |-> Return(JTuple(<<data.f["AccessId"], data.f["SecretKey"],
                                  data.f["EmployeeId"]>>))]

\* Client.authenticate(login, password): [access_id, secret_key, out, sent]
ClientAuthenticate(h, a, s, login, password, t, resp) ==
    LET r == ClientRequest(h, a, s, AuthUri, AuthArgs(login, password), FALSE, t, resp)
    IN  IF r.out.kind = "raise"
        THEN [access_id |-> a, secret_key |-> s, out |-> r.out, sent |-> r.sent]
        ELSE LET st == StoreCredentials(a, s, r.out.value)
             IN  [access_id |-> st.access_id, secret_key |-> st.secret_key,
                  out |-> st.out, sent |-> r.sent]

\* r[key] on the outcome of a call (the ['tasks'] of the task helpers)
Subscript(r, key) ==
    IF r.out.kind = "raise" THEN r
    ELSE IF r.out.value.t # "dict"
    THEN [r EXCEPT !.out = Raise("TypeError", <<"not subscriptable">>)]
    ELSE IF key \notin DOMAIN r.out.value.f
    THEN [r EXCEPT !.out = Raise("KeyError", <<key>>)]
    ELSE [r EXCEPT !.out = Return(JLeaf(r.out.value.f[key]))]

Args1(k, v) == JDict([x \in {k} |-> v])
Args2(k1, v1, k2, v2) == JDict([x \in {k1, k2} |-> IF x = k1 THEN v1 ELSE v2])
NoArgs == JDict([x \in {} |-> None])

TaskListUri == <<"BumsTaskApiV01", "/", "Task", "/", "list.api">>
TaskCardUri == <<"BumsTaskApiV01", "/", "Task", "/", "card.api">>
CommentListUri == <<"BumsCommonApiV01", "/", "Comment", "/", "list.api">>
ReactionUri == <<"SdfNotify", "/", "ReactionApi", "/", "do.api">>
EmployeeCardUri == <<"BumsStaffApiV01", "/", "Employee", "/", "card.api">>
EmployeeListUri == <<"BumsStaffApiV01", "/", "Employee", "/", "list.api">>

-----------------------------------------------------------------------------
(* Inputs: what callers pass and what the service answers *)

Hostnames == {<<"xyz.megaplan.ru">>}
Logins == {<<"bob">>}
Passwords == {<<"pw">>}
Uris == {<<"BumsTimeApiV01", "/", "Event", "/", "list.api">>}
ArgSets == {Args1("Status", <<"actual">>)}
TaskIds == {<<"1">>}
Statuses == {<<"actual">>}

\* credentials given to the constructor, and credentials the service issues
CtorAccessIds == {None, <<"a">>}
CtorSecretKeys == {None, <<"s">>}

KeyVals(k) ==
    CASE k = "AccessId" -> {<<"b">>, <<"c">>, None}
      [] k = "SecretKey" -> {<<"z">>, None}
      [] k = "EmployeeId" -> {<<"7">>}

\* every JSON object over a subset of Keys
Dicts(Keys) ==
    UNION {{f \in [K -> UNION {KeyVals(k) : k \in K}] : \A k \in K : f[k] \in KeyVals(k)}
           : K \in SUBSET Keys}

TasksDict == JDict([k \in {"tasks"} |-> <<>>])
EmptyDict == JDict([k \in {} |-> None])
FullDict(a, s) ==
    JDict([k \in {"AccessId", "SecretKey", "EmployeeId"} |->
              CASE k = "AccessId" -> a [] k = "SecretKey" -> s [] k = "EmployeeId" -> <<"7">>])

DataPayloads ==
    {JNull, TasksDict} \cup {JDict(f) : f \in Dicts({"AccessId", "SecretKey", "EmployeeId"})}
JsonPayloads == {JNull, TasksDict}

NoBody == [k \in {} |-> JNull]
DataBody(d) == [k \in {"data"} |-> d]
JsonBody(j) == [k \in {"json"} |-> j]
BothBody(d, j) == [k \in {"data", "json"} |-> IF k = "data" THEN d ELSE j]

Bodies ==
    {NoBody}
    \cup {DataBody(d) : d \in DataPayloads}
    \cup {JsonBody(j) : j \in JsonPayloads}
    \cup {BothBody(d, j) : d \in {JNull, TasksDict, FullDict(<<"b">>, <<"z">>)},
                           j \in JsonPayloads}

OkEnvelopes == {Envelope(<<"ok">>, <<>>, b) : b \in Bodies}
ErrEnvelopes ==
    {Envelope(<<"error">>, <<"bad login">>, NoBody),
     Envelope(<<"error">>, <<"denied">>, NoBody),
     Envelope(<<"error">>, <<"bad login">>, DataBody(FullDict(<<"b">>, <<"z">>)))}

\* what the transport can answer to a call
Responses == OkEnvelopes \cup ErrEnvelopes \cup {URLError}

\* what it answers to the helper methods' endpoints
HelperResponses ==
    {Envelope(<<"ok">>, <<>>, b) :
        b \in {NoBody, DataBody(TasksDict), DataBody(JNull), DataBody(EmptyDict),
               JsonBody(TasksDict)}}
    \cup {Envelope(<<"error">>, <<"denied">>, NoBody), URLError}

-----------------------------------------------------------------------------
(* One client, its calls made one after another *)

NoCall == [op |-> "new", signed |-> FALSE, resp |-> URLError,
           out |-> Return(JNull), sent |-> <<>>]

IdleThreads ==
    /\ pc = [th \in {"writer", "reader"} |-> "idle"]
    /\ loc = [th \in {"writer", "reader"} |-> JNull]
    /\ pairs = {}
    /\ built = {}
IdleSign == reqA = JNull /\ reqB = JNull

\* Client.__init__(hostname, access_id=None, secret_key=None)
Init ==
    /\ hostname \in Hostnames
    /\ access_id \in CtorAccessIds
    /\ secret_key \in CtorSecretKeys
    /\ last = NoCall
    /\ lastAuth = JNull
    /\ IdleThreads /\ IdleSign

\* a call ended: r is [out, sent]
Record(op, signed, resp, r) ==
    last' = [op |-> op, signed |-> signed, resp |-> resp, out |-> r.out, sent |-> r.sent]

Authenticate ==
    \E login \in Logins, password \in Passwords, t \in Clock, resp \in Responses :
        LET r == ClientAuthenticate(hostname, access_id, secret_key,
                                    login, password, t, resp)
        IN  /\ access_id' = r.access_id
            /\ secret_key' = r.secret_key
            /\ Record("authenticate", FALSE, resp, r)
            /\ lastAuth' = IF r.out.kind = "return" THEN Decode(resp).value ELSE lastAuth
            /\ UNCHANGED <<hostname, threadVars, signVars>>

\* faulty variant: a failed call drops the credentials
CallForgetsOnError(op, signed, resp, r) ==
    /\ Record(op, signed, resp, r)
    /\ access_id' = IF r.out.kind = "raise" THEN None ELSE access_id
    /\ secret_key' = IF r.out.kind = "raise" THEN None ELSE secret_key
    /\ UNCHANGED <<hostname, lastAuth, threadVars, signVars>>

\* a call that goes through Client.request and assigns no field
Call(op, signed, resp, r) ==
    /\ Record(op, signed, resp, r)
    /\ UNCHANGED <<hostname, access_id, secret_key, lastAuth, threadVars, signVars>>

Request ==
    \E uri \in Uris, args \in ArgSets, signed \in BOOLEAN, t \in Clock, resp \in Responses :
        Call("request", signed, resp,
             ClientRequest(hostname, access_id, secret_key, uri, args, signed, t, resp))

GetActualTasks ==
    \E t \in Clock, resp \in HelperResponses :
        Call("get_actual_tasks", TRUE, resp,
             Subscript(ClientRequest(hostname, access_id, secret_key, TaskListUri,
                                     Args1("Status", <<"actual">>), TRUE, t, resp),
                       "tasks"))

GetTasksByStatus ==
    \E status \in Statuses, t \in Clock, resp \in HelperResponses :
        Call("get_tasks_by_status", TRUE, resp,
             Subscript(ClientRequest(hostname, access_id, secret_key, TaskListUri,
                                     Args1("Status", status), TRUE, t, resp),
                       "tasks"))

GetTaskDetails ==
    \E task_id \in TaskIds, t \in Clock, resp \in HelperResponses :
        Call("get_task_details", TRUE, resp,
             ClientRequest(hostname, access_id, secret_key, TaskCardUri,
                           Args1("Id", task_id), TRUE, t, resp))

GetTaskComments ==
    \E task_id \in TaskIds, t \in Clock, resp \in HelperResponses :
        Call("get_task_comments", TRUE, resp,
             ClientRequest(hostname, access_id, secret_key, CommentListUri,
                           Args2("SubjectType", <<"task">>, "SubjectId", task_id),
                           TRUE, t, resp))

SetReaction ==
    \E token \in {<<"tok">>}, message \in {<<"hi">>}, t \in Clock, resp \in HelperResponses :
        Call("set_reaction", TRUE, resp,
             ClientRequest(hostname, access_id, secret_key, ReactionUri,
                           Args2("Token", token, "params[text]", message),
                           TRUE, t, resp))

GetEmployeeCard ==
    \E employee_id \in {<<"7">>}, t \in Clock, resp \in HelperResponses :
        Call("get_employee_card", TRUE, resp,
             ClientRequest(hostname, access_id, secret_key, EmployeeCardUri,
                           Args1("Id", employee_id), TRUE, t, resp))

GetEmployeeList ==
    \E t \in Clock, resp \in HelperResponses :
        Call("get_employee_list", TRUE, resp,
             ClientRequest(hostname, access_id, secret_key, EmployeeListUri,
                           NoArgs, TRUE, t, resp))

Next ==
    \/ Authenticate
    \/ Request
    \/ GetActualTasks
    \/ GetTasksByStatus
    \/ GetTaskDetails
    \/ GetTaskComments
    \/ SetReaction
    \/ GetEmployeeCard
    \/ GetEmployeeList

Spec == Init /\ [][Next]_vars

-----------------------------------------------------------------------------
(* Properties of one client *)

Authenticated == access_id # None /\ secret_key # None

SignedOps ==
    {"request", "get_actual_tasks", "get_tasks_by_status", "get_task_details",
     "get_task_comments", "set_reaction", "get_employee_card", "get_employee_list"}

AuthenticateFirst == Raise("Exception", <<"Authenticate first.">>)

\* the X-Authorization value the protocol prescribes for the request http
\* under the credentials (a, s): a:base64(hex(hmac_sha1(s, canonical text)))
Prescribed(a, s, http) ==
    a \o <<":">> \o
    B64encode(HmacSha1Hex(s,
        <<"POST", "\n", "\n", "application/x-www-form-urlencoded", "\n">>
        \o http.headers["Date"] \o <<"\n">> \o SubSeq(http.url, 3, Len(http.url))))

\* C1: a signed request on a client whose access id or secret key is absent
\* fails with 'Authenticate first.' and hands nothing to the transport.
C1_AuthenticateFirst ==
    [][((access_id = None \/ secret_key = None)
        /\ last'.op \in SignedOps /\ last'.signed)
       => (last'.out = AuthenticateFirst /\ last'.sent = <<>>)]_vars

C1_Witness ==
    /\ last.op = "request" /\ last.signed
    /\ access_id # None /\ secret_key = None
    /\ last.out = AuthenticateFirst /\ last.sent = <<>>
    /\ last.resp.t = "json" /\ last.resp.status.code = <<"ok">>

\* C2: when the envelope answered to authenticate() has a status code other
\* than "ok", authenticate() raises an error whose message is status.message
\* and the access id and the secret key are what they were before the call.
C2_AuthenticateRejected ==
    [][(last'.op = "authenticate" /\ last'.resp.t = "json"
        /\ last'.resp.status.code # <<"ok">>)
       => (/\ last'.out = Raise("Exception", last'.resp.status.message)
           /\ access_id' = access_id
           /\ secret_key' = secret_key)]_vars

C2_Witness ==
    /\ last.op = "authenticate"
    /\ last.resp = Envelope(<<"error">>, <<"bad login">>,
                            DataBody(FullDict(<<"b">>, <<"z">>)))
    /\ last.out = Raise("Exception", <<"bad login">>)
    /\ access_id = None /\ secret_key = None

\* C3: once the client is Authenticated it stays Authenticated, whatever is
\* called and whatever the transport answers.
C3_NoTransitionBack ==
    [][Authenticated => Authenticated']_vars

\* C4: a request handed to the transport carries X-Authorization exactly when
\* the call was signed, and then its value is '<access id>:<signature>'.
C4_AuthorizationIffSigned ==
    last.sent # <<>> =>
        LET http == last.sent[1]
        IN  /\ ("X-Authorization" \in DOMAIN http.headers) <=> last.signed
            /\ last.signed =>
                  http.headers["X-Authorization"] = Prescribed(access_id, secret_key, http)

C4_Witness ==
    /\ last.op = "authenticate" /\ ~last.signed
    /\ last.out.kind = "raise"
    /\ access_id = <<"a">> /\ secret_key = <<"s">>
    /\ Len(last.sent) = 1
    /\ "X-Authorization" \notin DOMAIN last.sent[1].headers

\* the calls that return what send() returned, as it is
PassThroughOps ==
    {"request", "get_task_details", "get_task_comments", "set_reaction",
     "get_employee_card", "get_employee_list"}

\* C5: for a decoded envelope send() raises status.message when the code is
\* not "ok"; otherwise it returns the value under 'data' when that key is
\* present, otherwise the value under 'json' when that key is present,
\* otherwise nothing (None), without an error.
C5_EnvelopeDecoding ==
    (last.op \in PassThroughOps /\ last.sent # <<>> /\ last.resp.t = "json") =>
        LET env == last.resp
        IN  /\ env.status.code # <<"ok">> =>
                  last.out = Raise("Exception", env.status.message)
            /\ (env.status.code = <<"ok">> /\ "data" \in DOMAIN env.body) =>
                  last.out = Return(env.body["data"])
            /\ (env.status.code = <<"ok">> /\ "data" \notin DOMAIN env.body
                /\ "json" \in DOMAIN env.body) =>
                  last.out = Return(env.body["json"])
            /\ (env.status.code = <<"ok">> /\ DOMAIN env.body = {}) =>
                  last.out = Return(JNull)

C5_Witness ==
    /\ last.op = "request" /\ last.sent # <<>>
    /\ last.resp = Envelope(<<"ok">>, <<>>, BothBody(JNull, TasksDict))
    /\ last.out = Return(JNull)

\* C6: after authenticate() returned for the payload (A, S, E) it returned
\* (A, S, E), the client holds (A, S), and every later signed request, up to
\* the next authenticate() that returns, is sent with X-Authorization A:<the
\* signature keyed with S>.
C6_LaterRequestsUseIssuedCredentials ==
    /\ (last.op = "authenticate" /\ last.out.kind = "return") =>
          /\ last.out.value = JTuple(<<lastAuth.f["AccessId"], lastAuth.f["SecretKey"],
                                       lastAuth.f["EmployeeId"]>>)
          /\ access_id = lastAuth.f["AccessId"]
          /\ secret_key = lastAuth.f["SecretKey"]
    /\ (lastAuth # JNull /\ last.op \in SignedOps /\ last.signed /\ last.sent # <<>>) =>
          last.sent[1].headers["X-Authorization"] =
              Prescribed(lastAuth.f["AccessId"], lastAuth.f["SecretKey"], last.sent[1])

\* C9: only authenticate() writes the client: request() and the helper
\* methods leave access id and secret key as they were, whether they return
\* or raise, and nothing changes the hostname.
C9_OnlyAuthenticateWrites ==
    [][/\ hostname' = hostname
       /\ last'.op # "authenticate" =>
             (access_id' = access_id /\ secret_key' = secret_key)]_vars

C9_Witness ==
    /\ last.op = "get_actual_tasks" /\ last.out.kind = "raise"
    /\ last.sent # <<>>
    /\ access_id = <<"b">> /\ secret_key = <<"z">>

\* C10: whenever authenticate() ends in an error, access id and secret key
\* are both what they were before the call.
C10_AuthenticateAllOrNothing ==
    [][(last'.op = "authenticate" /\ last'.out.kind = "raise")
       => (access_id' = access_id /\ secret_key' = secret_key)]_vars

-----------------------------------------------------------------------------
(* Two threads on one client: the writer calls authenticate(), the reader  *)
(* calls request(signed=True).  The interpreter may switch threads between *)
(* any two attribute reads or writes, so each read of self.access_id or    *)
(* self.secret_key and each assignment to them is a step of its own.  The  *)
(* service answers authenticate() with a complete payload or an error.     *)

IssuedAccessIds == {<<"b">>, <<"c">>}
IssuedSecretKeys == {<<"z">>}

AuthResponses ==
    {Envelope(<<"ok">>, <<>>, DataBody(FullDict(a, s)))
        : a \in IssuedAccessIds, s \in IssuedSecretKeys}
    \cup {Envelope(<<"error">>, <<"bad login">>, NoBody)}

ReaderResponses == {Envelope(<<"ok">>, <<>>, DataBody(TasksDict)), URLError}

ThreadsInit ==
    /\ hostname \in Hostnames
    /\ access_id \in CtorAccessIds
    /\ secret_key \in CtorSecretKeys
    /\ last = NoCall
    /\ lastAuth = JNull
    /\ pc = [th \in {"writer", "reader"} |-> "idle"]
    /\ loc = [th \in {"writer", "reader"} |->
                 IF th = "writer"
                 THEN [n |-> 0, data |-> JNull, resp |-> URLError, sent |-> <<>>]
                 ELSE [n |-> 0, a |-> None, s |-> None, req |-> JNull]]
    /\ pairs = {<<access_id, secret_key>>}
    /\ built = {}
    /\ IdleSign

Goto(th, label) == pc' = [pc EXCEPT ![th] = label]

\* lines 91-92: the unsigned request of authenticate(), up to its answer
WriterRequest ==
    /\ pc["writer"] = "idle"
    /\ loc["writer"].n < MaxAuthCalls
    /\ \E login \in Logins, password \in Passwords, t \in Clock, resp \in AuthResponses :
          LET r == ClientRequest(hostname, access_id, secret_key, AuthUri,
                                 AuthArgs(login, password), FALSE, t, resp)
          IN  IF r.out.kind = "raise"
              THEN /\ Goto("writer", "idle")
                   /\ loc' = [loc EXCEPT !["writer"].n = @ + 1]
                   /\ Record("authenticate", FALSE, resp, r)
                   /\ UNCHANGED pairs
              ELSE /\ Goto("writer", "set_access_id")
                   /\ loc' = [loc EXCEPT !["writer"].n = @ + 1,
                                         !["writer"].data = r.out.value,
                                         !["writer"].resp = resp,
                                         !["writer"].sent = r.sent]
                   /\ pairs' = pairs \cup
                         {<<r.out.value.f["AccessId"], r.out.value.f["SecretKey"]>>}
                   /\ UNCHANGED last
    /\ UNCHANGED <<hostname, access_id, secret_key, lastAuth, built, signVars>>

\* line 93: self.access_id = data['AccessId']
WriterSetAccessId ==
    /\ pc["writer"] = "set_access_id"
    /\ access_id' = loc["writer"].data.f["AccessId"]
    /\ Goto("writer", "set_secret_key")
    /\ UNCHANGED <<hostname, secret_key, last, lastAuth, loc, pairs, built, signVars>>

\* line 94: self.secret_key = data['SecretKey']
WriterSetSecretKey ==
    /\ pc["writer"] = "set_secret_key"
    /\ secret_key' = loc["writer"].data.f["SecretKey"]
    /\ Goto("writer", "return")
    /\ UNCHANGED <<hostname, access_id, last, lastAuth, loc, pairs, built, signVars>>

\* lines 95-96: return self.access_id, self.secret_key, EmployeeId
WriterReturn ==
    /\ pc["writer"] = "return"
    /\ Goto("writer", "idle")
    /\ Record("authenticate", FALSE, loc["writer"].resp,
              [out |-> Return(JTuple(<<access_id, secret_key,
                                       loc["writer"].data.f["EmployeeId"]>>)),
               sent |-> loc["writer"].sent])
    /\ loc' = [loc EXCEPT !["writer"].data = JNull, !["writer"].resp = URLError,
                          !["writer"].sent = <<>>]
    /\ UNCHANGED <<hostname, access_id, secret_key, lastAuth, pairs, built, signVars>>

\* line 104, left operand: self.access_id is None
ReaderCheckAccessId ==
    /\ pc["reader"] = "idle"
    /\ loc["reader"].n < MaxRequests
    /\ loc' = [loc EXCEPT !["reader"].n = @ + 1]
    /\ IF access_id = None
       THEN /\ Goto("reader", "idle")
            /\ Record("request", TRUE, URLError, [out |-> AuthenticateFirst, sent |-> <<>>])
       ELSE /\ Goto("reader", "check_secret_key")
            /\ UNCHANGED last
    /\ UNCHANGED <<hostname, access_id, secret_key, lastAuth, pairs, built, signVars>>

\* line 104, right operand: self.secret_key is None
ReaderCheckSecretKey ==
    /\ pc["reader"] = "check_secret_key"
    /\ IF secret_key = None
       THEN /\ Goto("reader", "idle")
            /\ Record("request", TRUE, URLError, [out |-> AuthenticateFirst, sent |-> <<>>])
       ELSE /\ Goto("reader", "load_access_id")
            /\ UNCHANGED last
    /\ UNCHANGED <<hostname, access_id, secret_key, lastAuth, loc, pairs, built, signVars>>

\* line 106: the argument self.access_id is read
ReaderLoadAccessId ==
    /\ pc["reader"] = "load_access_id"
    /\ loc' = [loc EXCEPT !["reader"].a = access_id]
    /\ Goto("reader", "load_secret_key")
    /\ UNCHANGED <<hostname, access_id, secret_key, last, lastAuth, pairs, built, signVars>>

\* line 106: the argument self.secret_key is read and the Request is built
ReaderBuild ==
    /\ pc["reader"] = "load_secret_key"
    /\ \E uri \in Uris, args \in ArgSets, t \in Clock :
          LET req == NewRequest(hostname, loc["reader"].a, secret_key, uri, args, t)
          IN  /\ loc' = [loc EXCEPT !["reader"].s = secret_key, !["reader"].req = req]
              /\ built' = built \cup {[access_id |-> req.access_id,
                                      secret_key |-> req.secret_key]}
    /\ Goto("reader", "sign_send")
    /\ UNCHANGED <<hostname, access_id, secret_key, last, lastAuth, pairs, signVars>>

\* lines 107-109: req.sign(); return req.send()
ReaderSignSend ==
    /\ pc["reader"] = "sign_send"
    /\ \E resp \in ReaderResponses :
          Record("request", TRUE, resp, RequestSend(Sign(loc["reader"].req), resp))
    /\ loc' = [loc EXCEPT !["reader"].req = JNull]
    /\ Goto("reader", "idle")
    /\ UNCHANGED <<hostname, access_id, secret_key, lastAuth, pairs, built, signVars>>

ThreadsNext ==
    \/ WriterRequest
    \/ WriterSetAccessId
    \/ WriterSetSecretKey
    \/ WriterReturn
    \/ ReaderCheckAccessId
    \/ ReaderCheckSecretKey
    \/ ReaderLoadAccessId
    \/ ReaderBuild
    \/ ReaderSignSend

SpecThreads == ThreadsInit /\ [][ThreadsNext]_vars

\* C7: no interleaving of authenticate() and request(signed=True) builds a
\* Request with the access id of one credential pair and the secret key of
\* another.
C7_NoTornCredentialPair ==
    \A r \in built : <<r.access_id, r.secret_key>> \in pairs

-----------------------------------------------------------------------------
(* Request objects built and signed one after another; the last two are    *)
(* kept.  Hostnames and paths are the caller's and may hold '/' and '\n'.  *)

SignHostnames == {<<"h">>, <<"h", "/", "x">>, <<"h", "\n", "x">>}
SignUris == {<<"x">>, <<"y">>, <<"x", "/", "y">>, <<"x", "\n", "y">>}
SignAccessIds == {<<"a">>}
SignSecretKeys == {<<"s">>, <<"z">>}

SignInit ==
    /\ hostname = <<"h">>
    /\ access_id = None
    /\ secret_key = None
    /\ last = NoCall
    /\ lastAuth = JNull
    /\ IdleThreads
    /\ IdleSign

\* Request(hostname, access_id, secret_key, uri) followed by sign()
SignRequest ==
    /\ \E h \in SignHostnames, a \in SignAccessIds, s \in SignSecretKeys,
          uri \in SignUris, t \in Clock :
          /\ reqA' = Sign(NewRequest(h, a, s, uri, JNull, t))
          /\ reqB' = reqA
    /\ UNCHANGED <<clientVars, threadVars>>

SignNext == SignRequest

SpecSign == SignInit /\ [][SignNext]_vars

\* C8: two signed requests under the same secret key that differ in method,
\* date, uri or content type have different signatures (the MAC being
\* collision-free, their canonical texts differ).
C8_SignatureSeparatesRequests ==
    (/\ reqA # JNull /\ reqB # JNull
     /\ reqA.secret_key = reqB.secret_key
     /\ \/ reqA.method # reqB.method
        \/ reqA.date # reqB.date
        \/ reqA.uri # reqB.uri
        \/ reqA.content_type # reqB.content_type)
    => reqA.signature # reqB.signature

C8_Witness ==
    /\ reqA # JNull /\ reqB # JNull
    /\ reqA.secret_key = reqB.secret_key
    /\ reqA.uri = <<"h", "/", "x", "/", "y">> /\ reqB.uri = reqA.uri
    /\ reqA.date # reqB.date
    /\ reqA.signature # reqB.signature

====
